---- MODULE Spec2Model ----
(***************************************************************************)
(* Graph abstraction / merge pipeline of arvisan-backend.                  *)
(*                                                                         *)
(*   GraphPreProcessingService  -> nodes, chunked records                  *)
(*   GraphProcessingService     -> formatToLPG (abstraction, dedup, ...)   *)
(*   PostProcessingService      -> mergeGraphs, validateGraph              *)
(*                                                                         *)
(* JavaScript arrays are sequences, a Map<string,string> is a function     *)
(* whose DOMAIN is its key set, a MapSet is its value list in insertion    *)
(* order.  An absent optional value is the empty sequence.                 *)
(***************************************************************************)
EXTENDS Integers, Sequences, FiniteSets, TLC

VARIABLES
    pc,            \* position of the request: which constructor / call has run
    rawRecords,    \* Record<Neo4jComponentPath>[] handed to the pre-processor
    options,       \* BasicGraphFilterOptions of the formatToLPG call
    nodes,         \* GraphPreProcessingService.nodes
    records,       \* GraphPreProcessingService.records (spliced in place later)
    replaceMap,    \* the abstraction map of the formatToLPG call
    rawEdges,      \* result of getAllEdges inside formatToLPG
    mergedEdges,   \* result of mergeDuplicateEdges inside formatToLPG
    lpg,           \* Graph returned by formatToLPG
    graphs,        \* arguments of new PostProcessingService(...graphs)
    graph,         \* PostProcessingService._graph
    error,         \* message list of the Error thrown by validateGraph
    call,          \* arguments of a call of a single method on its own
    returned,      \* what that call returned
    locals         \* local variables of a call that is under way

vars == <<pc, rawRecords, options, nodes, records, replaceMap, rawEdges, mergedEdges, lpg,
          graphs, graph, error, call, returned, locals>>

lpgVars == <<rawRecords, options, nodes, records, replaceMap, rawEdges, mergedEdges, lpg>>
mergeVars == <<graphs, graph, error>>
callVars == <<call, returned, locals>>

(***************************************************************************)
(* Bounds of the explored inputs.                                          *)
(***************************************************************************)
MaxRecords == 2
MaxCutoff == 2
MaxRelationships == 2
MaxCycles == 2
MaxGraphs == 2
MaxEdges == 3

(***************************************************************************)
(* JavaScript array helpers.                                               *)
(***************************************************************************)
Min(a, b) == IF a < b THEN a ELSE b
Max(a, b) == IF a > b THEN a ELSE b

Range(s) == {s[i] : i \in 1..Len(s)}

RECURSIVE Flat(_)
Flat(ss) == IF ss = <<>> THEN <<>> ELSE Head(ss) \o Flat(Tail(ss))

\* Array.prototype.splice(start, deleteCount) on a 0-based array: a negative
\* start counts from the end, both arguments are clamped to the array.
SpliceStart(s, start) ==
    IF start < 0 THEN Max(Len(s) + start, 0) ELSE Min(start, Len(s))

SpliceCount(s, start, deleteCount) ==
    Min(Max(deleteCount, 0), Len(s) - SpliceStart(s, start))

SpliceDeleted(s, start, deleteCount) ==
    SubSeq(s, SpliceStart(s, start) + 1,
              SpliceStart(s, start) + SpliceCount(s, start, deleteCount))

SpliceRest(s, start, deleteCount) ==
    SubSeq(s, 1, SpliceStart(s, start))
      \o SubSeq(s, SpliceStart(s, start) + SpliceCount(s, start, deleteCount) + 1, Len(s))

\* Map.prototype.set
MapSetKey(m, k, v) == [x \in DOMAIN m \cup {k} |-> IF x = k THEN v ELSE m[x]]

EmptyMap == [x \in {} |-> ""]

\* String.prototype.toLowerCase on the relationship types of the database
ToLowerCase(t) ==
    CASE t = "CONTAINS" -> "contains"
      [] t = "CALLS" -> "calls"
      [] OTHER -> t

(***************************************************************************)
(* The database the records are drawn from: a containment tree whose       *)
(* modules sit at different depths, and dependency relationships between   *)
(* modules (two of them parallel).                                         *)
(*                                                                         *)
(*      D --contains--> M1        D --contains--> L --contains--> M3       *)
(*      D --contains--> M2                                                 *)
(***************************************************************************)
Rel(id, s, t, ty) ==
    [elementId |-> id, startNodeElementId |-> s, endNodeElementId |-> t, type |-> ty]

ContainmentChain(m) ==
    CASE m = "M1" -> << Rel("c1", "D", "M1", "CONTAINS") >>
      [] m = "M2" -> << Rel("c2", "D", "M2", "CONTAINS") >>
      [] m = "M3" -> << Rel("c3", "D", "L", "CONTAINS"), Rel("c4", "L", "M3", "CONTAINS") >>
      [] OTHER -> <<>>

DependencyPaths ==
    { << Rel("e1", "M1", "M2", "CALLS") >>,
      << Rel("e2", "M1", "M2", "CALLS") >>,
      << Rel("e3", "M1", "M3", "CALLS") >>,
      << Rel("e4", "M3", "M2", "CALLS") >>,
      << Rel("e5", "M2", "M3", "CALLS") >>,
      << Rel("e3", "M1", "M3", "CALLS"), Rel("e4", "M3", "M2", "CALLS") >> }

SelectableNodes == {"D", "M1"}

\* The containment path from the selected node down to module m (r1 of the
\* query), when m lies below (or is) the selected node.
SourceChains(sel, m) ==
    IF sel = m THEN { <<>> }
    ELSE IF ContainmentChain(m) # <<>> /\ ContainmentChain(m)[1].startNodeElementId = sel
         THEN { ContainmentChain(m) }
         ELSE {}

\* One row of the query: selectedNode as source, r1 + r2 + reverse(r3) as path,
\* parent as target, for every ancestor prefix r3 of the dependency's chain.
QueryRows(sel) ==
    { [source |-> sel,
       path |-> r1 \o r2 \o SubSeq(ContainmentChain(r2[Len(r2)].endNodeElementId),
                                   Len(ContainmentChain(r2[Len(r2)].endNodeElementId)) - j + 1,
                                   Len(ContainmentChain(r2[Len(r2)].endNodeElementId))),
       target |-> IF j = 0 THEN r2[Len(r2)].endNodeElementId
                  ELSE ContainmentChain(r2[Len(r2)].endNodeElementId)
                         [Len(ContainmentChain(r2[Len(r2)].endNodeElementId)) - j + 1]
                         .startNodeElementId]
      : <<r1, r2, j>> \in
          { x \in (UNION {SourceChains(sel, p[1].startNodeElementId) : p \in DependencyPaths})
                    \X DependencyPaths \X (0..2) :
              /\ x[1] \in SourceChains(sel, x[2][1].startNodeElementId)
              /\ x[3] <= Len(ContainmentChain(x[2][Len(x[2])].endNodeElementId)) } }

\* Lists of at most n distinct rows (RETURN DISTINCT), in any order.
RECURSIVE DistinctLists(_, _)
DistinctLists(S, n) ==
    IF n = 0 THEN { <<>> }
    ELSE { <<>> } \cup
         { <<x>> \o rest : <<x, rest>> \in
             { y \in S \X DistinctLists(S, n - 1) : y[1] \notin Range(y[2]) } }

(***************************************************************************)
(* GraphPreProcessingService                                               *)
(***************************************************************************)
\* Array.prototype.findIndex for "same elementId", 0-based
RECURSIVE FindIndexOfId(_, _, _)
FindIndexOfId(s, id, i) ==
    IF i > Len(s) THEN -1
    ELSE IF s[i].elementId = id THEN i - 1
    ELSE FindIndexOfId(s, id, i + 1)

RECURSIVE GroupByType(_, _)
GroupByType(chunks, rest) ==
    IF rest = <<>> THEN chunks
    ELSE IF Head(rest).type = chunks[Len(chunks)][1].type
         THEN GroupByType([chunks EXCEPT ![Len(chunks)] = Append(@, Head(rest))], Tail(rest))
         ELSE GroupByType(Append(chunks, << Head(rest) >>), Tail(rest))

groupRelationships(relationships, reverseDirection) ==
    IF relationships = <<>> THEN << <<>> >>
    ELSE
      LET chunks == GroupByType(<< << relationships[1] >> >>, Tail(relationships))
      IN  IF Len(chunks) = 1
          THEN LET c == chunks[1]
                   index == FindIndexOfId(c, c[Len(c)].elementId, 1)
               IN  IF index = Len(c) - 1 /\ ~reverseDirection THEN << c, <<>> >>
                   ELSE IF index = Len(c) - 1 THEN << <<>>, c >>
                   ELSE IF ~reverseDirection
                        THEN << SpliceRest(c, index + 1, Len(c) - 1 - index),
                                SpliceDeleted(c, index + 1, Len(c) - 1 - index) >>
                        ELSE << SpliceDeleted(c, 0, index), SpliceRest(c, 0, index) >>
          ELSE LET front == IF ToLowerCase(chunks[1][1].type) # "contains"
                            THEN << <<>> >> \o chunks ELSE chunks
               IN  IF ToLowerCase(front[Len(front)][1].type) # "contains"
                   THEN Append(front, <<>>) ELSE front

\* the containment depth of an outer chunk: its length if it holds containment
\* edges, 0 otherwise
ContainsDepth(chunk) ==
    IF chunk # <<>> /\ ToLowerCase(chunk[1].type) = "contains" THEN Len(chunk) ELSE 0

\* new Neo4jComponentPathWithChunks(record): the first chunk is the leading
\* containment, the last chunk the trailing containment, the rest the dependency
\* edges; sourceDepth and targetDepth are the containment depths of the outer
\* chunks at construction.
PathWithChunks(record) ==
    LET chunks == groupRelationships(record.path, FALSE)
    IN  [source |-> record.source,
         target |-> record.target,
         containSourceEdges |-> chunks[1],
         dependencyEdges |-> Flat(SubSeq(chunks, 2, Len(chunks) - 1)),
         containTargetEdges |-> chunks[Len(chunks)],
         sourceDepth |-> ContainsDepth(chunks[1]),
         targetDepth |-> ContainsDepth(chunks[Len(chunks)])]

splitRelationshipsIntoChunks(recs) == [i \in 1..Len(recs) |-> PathWithChunks(recs[i])]

NodeOf(id) == [id |-> id, parent |-> <<>>]

RECURSIVE FirstOccurrences(_, _)
FirstOccurrences(ids, seen) ==
    IF ids = <<>> THEN <<>>
    ELSE IF Head(ids) \in seen THEN FirstOccurrences(Tail(ids), seen)
    ELSE << Head(ids) >> \o FirstOccurrences(Tail(ids), seen \cup {Head(ids)})

getAllNodes(recs) ==
    LET ids == FirstOccurrences(
                 Flat([i \in 1..Len(recs) |-> << recs[i].source, recs[i].target >>]), {})
    IN  [i \in 1..Len(ids) |-> NodeOf(ids[i])]

\* the key of a dependency (sequence): its edge ids joined by ','
PathId(record) == [i \in 1..Len(record.dependencyEdges) |-> record.dependencyEdges[i].elementId]

RECURSIVE SeenPaths(_, _)
SeenPaths(recs, seen) ==
    IF recs = <<>> THEN seen
    ELSE LET id == PathId(Head(recs))
             currDepth == IF id \in DOMAIN seen THEN seen[id] ELSE 0
         IN  SeenPaths(Tail(recs),
                       [x \in DOMAIN seen \cup {id} |->
                          IF x = id THEN Max(currDepth, Head(recs).targetDepth) ELSE seen[x]])

\* A faulty variant of onlyKeepLongestPaths: only the first record of each
\* dependency (sequence) is kept, whatever its trailing containment.
onlyKeepLongestPaths_FirstSeen(recs) ==
    LET First(i) == \A j \in 1..(i - 1) : PathId(recs[j]) # PathId(recs[i])
        kept == {i \in 1..Len(recs) : First(i)}
        Keep(r) == \E i \in kept : recs[i] = r
    IN  SelectSeq(recs, Keep)

onlyKeepLongestPaths(recs) ==
    LET seenPaths == SeenPaths(recs, [x \in {} |-> 0])
        Keep(r) == r.targetDepth = seenPaths[PathId(r)]
    IN  SelectSeq(recs, Keep)

(***************************************************************************)
(* GraphProcessingService                                                  *)
(***************************************************************************)
\* addToReplaceMap: every deleted edge's end node maps to the start node of
\* the first deleted edge
RECURSIVE SetAll(_, _, _)
SetAll(m, edges, firstStartNode) ==
    IF edges = <<>> THEN m
    ELSE SetAll(MapSetKey(m, Head(edges).endNodeElementId, firstStartNode),
                Tail(edges), firstStartNode)

addToReplaceMap(m, deletedEdges) ==
    IF deletedEdges = <<>> THEN m
    ELSE SetAll(m, deletedEdges, deletedEdges[1].startNodeElementId)

\* A faulty variant of the too-deep count: the cut placed one level too low.
ContainsTooDeep_OffByOne(record, maxDepth) == Max(0, record.sourceDepth - maxDepth - 1)

\* the body of the records.forEach of getAbstractionMap, for one record
ContainsTooDeep(record, maxDepth) == Max(0, record.sourceDepth - maxDepth)

CutRecord(record, maxDepth) ==
    LET tooDeep == ContainsTooDeep(record, maxDepth)
    IN  [record EXCEPT
           !.containSourceEdges = SpliceRest(@, maxDepth, tooDeep),
           !.containTargetEdges = SpliceRest(@, record.targetDepth - tooDeep, tooDeep)]

CutMap(m, record, maxDepth) ==
    LET tooDeep == ContainsTooDeep(record, maxDepth)
        deletedSource == SpliceDeleted(record.containSourceEdges, maxDepth, tooDeep)
        deletedTarget == SpliceDeleted(record.containTargetEdges,
                                       record.targetDepth - tooDeep, tooDeep)
    IN  addToReplaceMap(addToReplaceMap(m, deletedSource), deletedTarget)

RECURSIVE AbstractionMapFrom(_, _, _)
AbstractionMapFrom(m, recs, maxDepth) ==
    IF recs = <<>> THEN m
    ELSE AbstractionMapFrom(CutMap(m, Head(recs), maxDepth), Tail(recs), maxDepth)

\* getAbstractionMap returns the map ...
getAbstractionMap(recs, maxDepth) == AbstractionMapFrom(EmptyMap, recs, maxDepth)

\* ... and has spliced the too-deep containment edges out of the records
RecordsAfterCut(recs, maxDepth) == [i \in 1..Len(recs) |-> CutRecord(recs[i], maxDepth)]

Rewrite(m, id) == IF id \in DOMAIN m THEN m[id] ELSE id

AbstractEdge(e, abstractionMap) ==
    [e EXCEPT !.startNodeElementId = Rewrite(abstractionMap, @),
              !.endNodeElementId = Rewrite(abstractionMap, @)]

applyAbstraction(recs, abstractionMap) ==
    [i \in 1..Len(recs) |->
       [recs[i] EXCEPT !.dependencyEdges =
          [j \in 1..Len(@) |-> AbstractEdge(@[j], abstractionMap)]]]

\* record.allEdges
AllEdgesOf(record) ==
    record.containSourceEdges \o record.dependencyEdges \o record.containTargetEdges

DefaultWeight == 1

\* GraphElementParserService.toEdgeData
toEdgeData(r) ==
    [id |-> r.elementId,
     source |-> r.startNodeElementId,
     target |-> r.endNodeElementId,
     interaction |-> ToLowerCase(r.type),
     weight |-> DefaultWeight]

RECURSIVE FirstById(_, _)
FirstById(rels, seenEdges) ==
    IF rels = <<>> THEN <<>>
    ELSE IF Head(rels).elementId \in seenEdges THEN FirstById(Tail(rels), seenEdges)
    ELSE << Head(rels) >> \o FirstById(Tail(rels), seenEdges \cup {Head(rels).elementId})

getAllEdges(recs) ==
    LET rels == FirstById(Flat([i \in 1..Len(recs) |-> AllEdgesOf(recs[i])]), {})
    IN  [i \in 1..Len(rels) |-> toEdgeData(rels[i])]

\* Array.prototype.findIndex for "same source and target", 1-based, 0 if none
RECURSIVE FindSamePair(_, _, _)
FindSamePair(newEdges, edge, i) ==
    IF i > Len(newEdges) THEN 0
    ELSE IF newEdges[i].source = edge.source /\ newEdges[i].target = edge.target THEN i
    ELSE FindSamePair(newEdges, edge, i + 1)

\* A faulty variant of the reducer of mergeDuplicateEdges: the later edge
\* replaces the first one of its pair instead of adding to its weight.
MergeStep_KeepLast(newEdges, edge) ==
    LET index == FindSamePair(newEdges, edge, 1)
    IN  IF index = 0 THEN Append(newEdges, edge)
        ELSE [newEdges EXCEPT ![index] = [edge EXCEPT !.weight = @ + newEdges[index].weight]]

MergeStep(newEdges, edge) ==
    LET index == FindSamePair(newEdges, edge, 1)
    IN  IF index = 0 THEN Append(newEdges, edge)
        ELSE [newEdges EXCEPT ![index].weight = @ + edge.weight]

RECURSIVE MergeInto(_, _)
MergeInto(newEdges, edges) ==
    IF edges = <<>> THEN newEdges
    ELSE MergeInto(MergeStep(newEdges, Head(edges)), Tail(edges))

mergeDuplicateEdges(edges) == MergeInto(<<>>, edges)

\* mergeDuplicateEdges on the edge objects themselves: the input list holds
\* the objects, newEdges holds references (positions in the input list) to
\* them, and "newEdges[index].data.properties.weight +=" writes to the object
\* both lists share. The returned list is the referenced objects.
Deref(edges, refs) == [i \in 1..Len(refs) |-> edges[refs[i]]]

MergeStepInPlace(st, k) ==
    LET index == FindSamePair(Deref(st.edges, st.newEdges), st.edges[k], 1)
    IN  IF index = 0 THEN [st EXCEPT !.newEdges = Append(@, k)]
        ELSE [st EXCEPT !.edges[st.newEdges[index]].weight = @ + st.edges[k].weight]

RECURSIVE MergeInPlace(_, _)
MergeInPlace(st, k) ==
    IF k > Len(st.edges) THEN st
    ELSE MergeInPlace(MergeStepInPlace(st, k), k + 1)

mergeDuplicateEdgesInPlace(edges) ==
    LET st == MergeInPlace([edges |-> edges, newEdges |-> <<>>], 1)
    IN  [edges |-> st.edges, returned |-> Deref(st.edges, st.newEdges)]

\* "!minRelationships": an absent bound and the bound 0 are both falsy
Falsy(bound) == bound = <<>> \/ bound[1] = 0

\* the node a record counts for and the neighbour it counts, taken from the
\* record's first dependency edge and oriented by outgoing and the record type
AnchorEnds(record, outgoing) ==
    LET edge == record.dependencyEdges[1]
        isDependency == record.type = "DEPENDENCY"
    IN  IF (outgoing /\ isDependency) \/ (~outgoing /\ ~isDependency)
        THEN [node |-> edge.startNodeElementId, relatedNode |-> edge.endNodeElementId]
        ELSE [node |-> edge.endNodeElementId, relatedNode |-> edge.startNodeElementId]

RECURSIVE RelationsMapFrom(_, _, _, _, _)
RelationsMapFrom(m, recs, outgoing, minRelationships, maxRelationships) ==
    IF recs = <<>> THEN m
    ELSE LET record == Head(recs)
             skip == \/ Falsy(minRelationships) /\ Falsy(maxRelationships)
                     \/ record.dependencyEdges = <<>>
             ends == AnchorEnds(record, outgoing)
             currentRelations == IF ends.node \in DOMAIN m THEN m[ends.node] ELSE <<>>
             next == IF skip \/ ends.relatedNode \in Range(currentRelations) THEN m
                     ELSE MapSetKey(m, ends.node, Append(currentRelations, ends.relatedNode))
         IN  RelationsMapFrom(next, Tail(recs), outgoing, minRelationships, maxRelationships)

applyMinMaxRelationshipsFilter(recs, outgoing, minRelationships, maxRelationships) ==
    LET relationsMap == RelationsMapFrom([x \in {} |-> <<>>], recs, outgoing,
                                         minRelationships, maxRelationships)
        Keep(record) ==
            LET node == record.selectedModuleElementId
                uniqueRelationships == IF node \in DOMAIN relationsMap
                                       THEN relationsMap[node] ELSE <<>>
            IN  IF Falsy(minRelationships) /\ Falsy(maxRelationships) THEN TRUE
                ELSE IF ~Falsy(minRelationships)
                        /\ Len(uniqueRelationships) < minRelationships[1] THEN FALSE
                ELSE IF ~Falsy(maxRelationships)
                        /\ Len(uniqueRelationships) > maxRelationships[1] THEN FALSE
                ELSE TRUE
    IN  SelectSeq(recs, Keep)

filterNodesByEdges(ns, edges) ==
    LET nodesOnPaths == {edges[i].source : i \in 1..Len(edges)}
                          \cup {edges[i].target : i \in 1..Len(edges)}
        OnPath(n) == n.id \in nodesOnPaths
    IN  SelectSeq(ns, OnPath)

\* A faulty variant of filterSelfEdges: nothing is removed.
filterSelfEdges_KeepAll(edges) == edges

filterSelfEdges(edges) ==
    LET NotSelf(e) == e.source # e.target
    IN  SelectSeq(edges, NotSelf)

\* the first node with the edge's target id gets the edge's source as parent
RECURSIVE FindNode(_, _, _)
FindNode(ns, id, i) ==
    IF i > Len(ns) THEN 0
    ELSE IF ns[i].id = id THEN i
    ELSE FindNode(ns, id, i + 1)

RECURSIVE addParentRelationship(_, _)
addParentRelationship(ns, parentEdges) ==
    IF parentEdges = <<>> THEN ns
    ELSE LET e == Head(parentEdges)
             target == FindNode(ns, e.target, 1)
         IN  addParentRelationship(
               IF target = 0 THEN ns ELSE [ns EXCEPT ![target].parent = << e.source >>],
               Tail(parentEdges))

\* A faulty variant of replaceEdgeWithParentRelationship: the edges of the
\* given relationship set the parents but stay in the edge list.
replaceEdgeWithParentRelationship_KeepAll(ns, edges, relationship) ==
    LET IsRel(e) == e.interaction = relationship
    IN  [nodes |-> addParentRelationship(ns, SelectSeq(edges, IsRel)),
         dependencyEdges |-> edges]

\* A faulty variant of replaceEdgeWithParentRelationship: the edges of the
\* given relationship are stripped without setting any parent.
replaceEdgeWithParentRelationship_NoParent(ns, edges, relationship) ==
    LET NotRel(e) == e.interaction # relationship
    IN  [nodes |-> ns, dependencyEdges |-> SelectSeq(edges, NotRel)]

replaceEdgeWithParentRelationship(ns, edges, relationship) ==
    LET IsRel(e) == e.interaction = relationship
        NotRel(e) == e.interaction # relationship
    IN  [nodes |-> addParentRelationship(ns, SelectSeq(edges, IsRel)),
         dependencyEdges |-> SelectSeq(edges, NotRel)]

\* formatToLPG(name, options) on a pre-processor holding ns and recs; besides
\* the graph, the result names the map, the records as the call leaves them
\* and the edge list before and after deduplication.
formatToLPG(ns, recs, opts) ==
    LET cut == opts.maxDepth # <<>>
        map == IF cut THEN getAbstractionMap(recs, opts.maxDepth[1]) ELSE EmptyMap
        filteredRecords ==
            IF cut THEN applyAbstraction(RecordsAfterCut(recs, opts.maxDepth[1]), map)
            ELSE recs
        all == getAllEdges(filteredRecords)
        edges == mergeDuplicateEdges(all)
        kept == filterNodesByEdges(ns, edges)
        replaceResult == replaceEdgeWithParentRelationship(kept, edges, "contains")
    IN  [replaceMap |-> map,
         records |-> filteredRecords,
         rawEdges |-> all,
         mergedEdges |-> edges,
         nodes |-> replaceResult.nodes,
         edges |-> IF opts.selfEdges = "false"
                   THEN filterSelfEdges(replaceResult.dependencyEdges)
                   ELSE replaceResult.dependencyEdges]

(***************************************************************************)
(* PostProcessingService                                                   *)
(***************************************************************************)
\* new MapSet(...elements): a Map keyed by id; a later element with a key
\* already present replaces the value and keeps the position of the key
RECURSIVE FindId(_, _, _)
FindId(entries, id, i) ==
    IF i > Len(entries) THEN 0
    ELSE IF entries[i].id = id THEN i
    ELSE FindId(entries, id, i + 1)

RECURSIVE MapSetAdd(_, _)
MapSetAdd(entries, elements) ==
    IF elements = <<>> THEN entries
    ELSE LET at == FindId(entries, Head(elements).id, 1)
         IN  MapSetAdd(IF at = 0 THEN Append(entries, Head(elements))
                       ELSE [entries EXCEPT ![at] = Head(elements)],
                       Tail(elements))

MapSetOf(elements) == MapSetAdd(<<>>, elements)

Keys(entries) == {entries[i].id : i \in 1..Len(entries)}

\* A faulty variant of mergeGraphs: plain arrays instead of MapSets, so an
\* element shared by two views is kept twice.
mergeGraphs_Concat(gs) ==
    [name |-> Flat([i \in 1..Len(gs) |-> gs[i].name]),
     nodes |-> Flat([i \in 1..Len(gs) |-> gs[i].nodes]),
     edges |-> Flat([i \in 1..Len(gs) |-> gs[i].edges])]

mergeGraphs(gs) ==
    [name |-> Flat([i \in 1..Len(gs) |-> gs[i].name]),
     nodes |-> MapSetOf(Flat([i \in 1..Len(gs) |-> gs[i].nodes])),
     edges |-> MapSetOf(Flat([i \in 1..Len(gs) |-> gs[i].edges]))]

\* validateGraph, first half: each edge with its known endpoints blanked,
\* then the edges that keep a non-blank endpoint
InvalidEdges(g) ==
    LET nodeIds == Keys(g.nodes)
        Blanked(e) == [e EXCEPT !.source = IF e.source \in nodeIds THEN "" ELSE e.source,
                                !.target = IF e.target \in nodeIds THEN "" ELSE e.target]
        Invalid(e) == e.source # "" \/ e.target # ""
    IN  SelectSeq([i \in 1..Len(g.edges) |-> Blanked(g.edges[i])], Invalid)

\* validateGraph, second half: one message part per invalid edge
MessageOf(e) ==
    IF e.source = "" THEN [edge |-> e.id, unknown |-> "target", ids |-> << e.target >>]
    ELSE IF e.target = "" THEN [edge |-> e.id, unknown |-> "source", ids |-> << e.source >>]
    ELSE [edge |-> e.id, unknown |-> "source and target", ids |-> << e.source, e.target >>]

\* the message parts of the Error validateGraph throws; none when it returns
validateGraph(g) ==
    LET invalidEdges == InvalidEdges(g)
    IN  [i \in 1..Len(invalidEdges) |-> MessageOf(invalidEdges[i])]

\* the graph the constructor validates
ConstructedGraph(gs) == IF Len(gs) = 1 THEN gs[1] ELSE mergeGraphs(gs)

(***************************************************************************)
(* ViolationCyclicalDependenciesService                                    *)
(*                                                                         *)
(* A rendered dependency is [elementId, startNode, endNode, violations], a *)
(* rendered node [elementId, originalNodeBeforeLifting]; both MapSets are  *)
(* lists keyed by elementId.                                               *)
(***************************************************************************)
\* ElementParserService.toNodeData
toNodeData(node) == [id |-> node.elementId]

\* MapSet.get / MapSet.getOriginal: the element with that id, if any
RECURSIVE getOriginal(_, _)
getOriginal(entries, id) ==
    IF entries = <<>> THEN <<>>
    ELSE IF Head(entries).elementId = id THEN << Head(entries) >>
    ELSE getOriginal(Tail(entries), id)

\* MapSet.has
has(entries, id) == getOriginal(entries, id) # <<>>

cycleIndex(d1) == << d1.node.id, [i \in 1..Len(d1.path) |-> d1.path[i].id] >>

\* the endpoint of a step whose edge is not rendered: the node with that id,
\* or the node it refers back to, if the node set has one
ResolveNode(ns, id) ==
    LET originalNode == getOriginal(ns, id)
    IN  IF originalNode = <<>> THEN <<>>
        ELSE IF originalNode[1].originalNodeBeforeLifting # <<>>
             THEN originalNode[1].originalNodeBeforeLifting
             ELSE originalNode

\* the callback of dep.path.map
ResolveStep(d, dependencies, ns) ==
    LET existingEdge == getOriginal(dependencies, d.id)
        sourceNode == ResolveNode(ns, d.source)
        targetNode == ResolveNode(ns, d.target)
        withSource == IF sourceNode = <<>> THEN d
                      ELSE [d EXCEPT !.source = sourceNode[1].elementId,
                                     !.sourceNode = toNodeData(sourceNode[1])]
    IN  IF existingEdge # <<>>
        THEN [d EXCEPT !.id = existingEdge[1].elementId,
                       !.source = existingEdge[1].startNode.elementId,
                       !.sourceNode = toNodeData(existingEdge[1].startNode),
                       !.target = existingEdge[1].endNode.elementId,
                       !.targetNode = toNodeData(existingEdge[1].startNode)]
        ELSE IF targetNode = <<>> THEN withSource
             ELSE [withSource EXCEPT !.target = targetNode[1].elementId,
                                     !.targetNode = toNodeData(targetNode[1])]

NewPath(dep, dependencies, ns) ==
    [i \in 1..Len(dep.path) |-> ResolveStep(dep.path[i], dependencies, ns)]

\* A faulty variant of the self-edge filter: every self-edge is removed, also
\* when the cycle has nothing else.
CollapseSelfEdges_DropAll(all, index) ==
    IF index > Len(all) THEN <<>>
    ELSE SelectSeq(all, LAMBDA e : e.source # e.target)

\* the filter on newPath: the first step stays if every step is a self-edge,
\* any other step stays if it is not a self-edge
RECURSIVE CollapseSelfEdges(_, _)
CollapseSelfEdges(all, index) ==
    IF index > Len(all) THEN <<>>
    ELSE (IF \/ index = 1 /\ \A i \in 1..Len(all) : all[i].source = all[i].target
             \/ all[index].source # all[index].target
          THEN << all[index] >> ELSE <<>>)
         \o CollapseSelfEdges(all, index + 1)

\* the callback of dependencyCycles.map
ProjectCycle(dep, dependencies, ns) ==
    LET newPath == NewPath(dep, dependencies, ns)
    IN  [node |-> newPath[1].sourceNode,
         path |-> CollapseSelfEdges(newPath, 1),
         length |-> dep.length,
         actualCycles |-> << dep >>,
         id |-> cycleIndex(dep)]

\* Array.prototype.findIndex for "same id", 1-based, 0 if none
RECURSIVE FindCycle(_, _, _)
FindCycle(violations, id, i) ==
    IF i > Len(violations) THEN 0
    ELSE IF violations[i].id = id THEN i
    ELSE FindCycle(violations, id, i + 1)

\* A faulty variant of the merge: a cycle whose id is already present is
\* dropped instead of being added to the actual cycles.
MergeCycles_DropLater(violations, ds) ==
    LET Firsts == {i \in 1..Len(ds) : \A j \in 1..(i - 1) : ds[j].id # ds[i].id}
    IN  violations \o SelectSeq(ds, LAMBDA d : \E i \in Firsts : ds[i] = d)

RECURSIVE MergeCycles(_, _)
MergeCycles(violations, ds) ==
    IF ds = <<>> THEN violations
    ELSE LET d == Head(ds)
             index == FindCycle(violations, d.id, 1)
         IN  MergeCycles(
               IF index > 0
               THEN [violations EXCEPT ![index].actualCycles = @ \o d.actualCycles]
               ELSE Append(violations, d),
               Tail(ds))

\* existingEdge.violations.dependencyCycle = true, for every looked-up edge
MarkCycleEdges(dependencies, dependencyCycles) ==
    [i \in 1..Len(dependencies) |->
       IF \E c \in 1..Len(dependencyCycles) : \E s \in 1..Len(dependencyCycles[c].path) :
            dependencyCycles[c].path[s].id = dependencies[i].elementId
       THEN [dependencies[i] EXCEPT !.violations = [dependencyCycle |-> TRUE]]
       ELSE dependencies[i]]

extractAndAbstractDependencyCycles(dependencyCycles, dependencies, ns) ==
    LET projected == [i \in 1..Len(dependencyCycles) |->
                        ProjectCycle(dependencyCycles[i], dependencies, ns)]
        visualized == SelectSeq(projected,
                        LAMBDA d : \E i \in 1..Len(d.path) : has(dependencies, d.path[i].id))
        renamed == [i \in 1..Len(visualized) |->
                      [visualized[i] EXCEPT !.id = cycleIndex(visualized[i])]]
    IN  MergeCycles(<<>>, renamed)

(***************************************************************************)
(* PropertiesService.formatLayers                                          *)
(*                                                                         *)
(* A label string is the sequence of its '_'-separated parts; a GraphLayer *)
(* is [label, classes, parentLabel].                                       *)
(***************************************************************************)
\* ElementParserService.extractLayer: the first label, split into the layer
\* label and its classes
extractLayer(labels) == [label |-> Head(labels[1]), classes |-> Tail(labels[1])]

\* Array.prototype.find for "same label", 1-based, 0 if none
RECURSIVE FindLayer(_, _, _)
FindLayer(layers, label, i) ==
    IF i > Len(layers) THEN 0
    ELSE IF layers[i].label = label THEN i
    ELSE FindLayer(layers, label, i + 1)

findOrCreateLayer(layers, label) ==
    IF FindLayer(layers, label, 1) # 0 THEN layers
    ELSE Append(layers, [label |-> label, classes |-> <<>>, parentLabel |-> <<>>])

\* classes.forEach: push the classes the layer does not include yet
RECURSIVE PushClasses(_, _)
PushClasses(classes, new) ==
    IF new = <<>> THEN classes
    ELSE PushClasses(IF Head(new) \in Range(classes) THEN classes
                     ELSE Append(classes, Head(new)), Tail(new))

\* the body of records.forEach
AddLayerRecord(layers, r) ==
    LET from == extractLayer(r.from)
        to == extractLayer(r.to)
        found == findOrCreateLayer(findOrCreateLayer(layers, from.label), to.label)
        fromLayer == FindLayer(found, from.label, 1)
        toLayer == FindLayer(found, to.label, 1)
        withParent == [found EXCEPT ![toLayer].parentLabel = << from.label >>]
        withFrom == [withParent EXCEPT ![fromLayer].classes = PushClasses(@, from.classes)]
    IN  [withFrom EXCEPT ![toLayer].classes = PushClasses(@, to.classes)]

RECURSIVE LayersOf(_, _)
LayersOf(layers, recs) ==
    IF recs = <<>> THEN layers
    ELSE LayersOf(AddLayerRecord(layers, Head(recs)), Tail(recs))

\* layers.find((l) => l.parentLabel === undefined), 1-based, 0 if none
RECURSIVE FindTopLayer(_, _)
FindTopLayer(layers, i) ==
    IF i > Len(layers) THEN 0
    ELSE IF layers[i].parentLabel = <<>> THEN i
    ELSE FindTopLayer(layers, i + 1)

\* A faulty variant of the child lookup: the layer that follows the parent
\* in the list, whatever its parent label.
FindChildLayer_NextInList(layers, parentLayer, i) ==
    IF FindLayer(layers, parentLayer.label, 1) < Len(layers)
    THEN FindLayer(layers, parentLayer.label, 1) + 1 ELSE 0

\* layers.find((l) => l.parentLabel === parentLayer.label), 1-based, 0 if none
RECURSIVE FindChildLayer(_, _, _)
FindChildLayer(layers, parentLayer, i) ==
    IF i > Len(layers) THEN 0
    ELSE IF layers[i].parentLabel = << parentLayer.label >> THEN i
    ELSE FindChildLayer(layers, parentLayer, i + 1)

(***************************************************************************)
(* Inputs of the merger: sub-views over the node ids "", X, Y.             *)
(***************************************************************************)
ViewEdge(id, s, t) ==
    [id |-> id, source |-> s, target |-> t, interaction |-> "calls", weight |-> DefaultWeight]

ViewNodeLists ==
    { << NodeOf("X") >>, << NodeOf("X"), NodeOf("Y") >>, << NodeOf(""), NodeOf("X") >> }

ViewEdgeLists ==
    { <<>> }
      \cup { << ViewEdge("e1", s, t) >> : s \in {"", "X", "Y"}, t \in {"", "X", "Y"} }
      \cup { << ViewEdge("e2", "X", "Y") >>, << ViewEdge("e2", "Y", "X") >>,
             << ViewEdge("e2", "", "Y") >> }

Views ==
    { [name |-> << "view" >>, nodes |-> MapSetOf(ns), edges |-> MapSetOf(es)]
        : ns \in ViewNodeLists, es \in ViewEdgeLists }

RECURSIVE ListsUpTo(_, _)
ListsUpTo(S, n) ==
    IF n = 0 THEN { <<>> }
    ELSE { <<>> } \cup { <<x>> \o rest : x \in S, rest \in ListsUpTo(S, n - 1) }

(***************************************************************************)
(* Inputs of the neighbour-count filter: records with one dependency step  *)
(* (two of them parallel) or two, of either record type, selected at       *)
(* either end of the first step.                                           *)
(***************************************************************************)
FilterRecords ==
    { [dependencyEdges |-> des, type |-> ty, selectedModuleElementId |-> sel]
        : <<des, ty, sel>> \in
            { x \in (DependencyPaths \ { << Rel("e4", "M3", "M2", "CALLS") >> })
                      \X {"DEPENDENCY", "DEPENDENT"} \X {"M1", "M2", "M3"} :
                x[3] \in {x[1][1].startNodeElementId, x[1][1].endNodeElementId} } }

OptionalBounds == { <<>> } \cup { << n >> : n \in 0..MaxRelationships }

FilterCalls ==
    [records : ListsUpTo(FilterRecords, MaxRecords),
     outgoing : BOOLEAN,
     minRelationships : OptionalBounds,
     maxRelationships : OptionalBounds]

(***************************************************************************)
(* Inputs of the violation projector: the cycles A->B->A and A->B->C->A    *)
(* (from either of two starting nodes) over the raw modules A, B, C, and a *)
(* rendered graph that shows some of their edges under a lifting of the    *)
(* modules, duplicates of one (source, target) pair already merged.        *)
(***************************************************************************)
CycleStep(id, s, t) ==
    [id |-> id, source |-> s, target |-> t, sourceNode |-> [id |-> s], targetNode |-> [id |-> t]]

RawCycleEdges ==
    << CycleStep("k1", "A", "B"), CycleStep("k2", "B", "A"),
       CycleStep("k3", "B", "C"), CycleStep("k4", "C", "A") >>

\* formatDependencyCycles: the anchor is the start of the path
Cycle(path) == [node |-> path[1].sourceNode, path |-> path, length |-> Len(path)]

DependencyCycles ==
    { Cycle(<< RawCycleEdges[1], RawCycleEdges[2] >>),
      Cycle(<< RawCycleEdges[2], RawCycleEdges[1] >>),
      Cycle(<< RawCycleEdges[1], RawCycleEdges[3], RawCycleEdges[4] >>),
      Cycle(<< RawCycleEdges[3], RawCycleEdges[4], RawCycleEdges[1] >>) }

Liftings ==
    { [n \in {"A", "B", "C"} |-> n],
      [n \in {"A", "B", "C"} |-> "A"],
      [n \in {"A", "B", "C"} |-> IF n = "C" THEN "C" ELSE "X"] }

RenderedNode(id) == [elementId |-> id, originalNodeBeforeLifting |-> <<>>]

RenderedDependencies(lifting, shown) ==
    LET raw == SelectSeq(RawCycleEdges, LAMBDA e : e.id \in shown)
    IN  [i \in 1..Len(raw) |->
           [elementId |-> raw[i].id,
            startNode |-> RenderedNode(lifting[raw[i].source]),
            endNode |-> RenderedNode(lifting[raw[i].target]),
            violations |-> [dependencyCycle |-> FALSE]]]

\* the node set: the rendered nodes only, or also every lifted module with a
\* reference to the node that stands for it
RenderedNodes(lifting, withLifted) ==
    LET ids == SelectSeq(<< "A", "B", "C", "X" >>,
                 LAMBDA n : \/ \E m \in DOMAIN lifting : lifting[m] = n
                            \/ withLifted /\ n \in DOMAIN lifting)
    IN  [i \in 1..Len(ids) |->
           [elementId |-> ids[i],
            originalNodeBeforeLifting |->
              IF ids[i] \in DOMAIN lifting /\ lifting[ids[i]] # ids[i]
              THEN << RenderedNode(lifting[ids[i]]) >> ELSE <<>>]]

CycleCalls ==
    { [dependencyCycles |-> cs,
       dependencies |-> RenderedDependencies(x[1], x[2]),
       nodes |-> RenderedNodes(x[1], x[3])]
        : cs \in DistinctLists(DependencyCycles, MaxCycles),
          x \in { y \in Liftings \X (SUBSET {"k1", "k2", "k3", "k4"}) \X BOOLEAN :
                    LET deps == RenderedDependencies(y[1], y[2])
                    IN  \A i, j \in 1..Len(deps) :
                          (deps[i].startNode = deps[j].startNode
                             /\ deps[i].endNode = deps[j].endNode) => i = j } }

(***************************************************************************)
(* Inputs of the layer summary: the distinct (labels(n), labels(m)) rows   *)
(* of the containment relationships, a layer also with a class suffix.     *)
(***************************************************************************)
LayerLabels == { << "Domain" >>, << "Application" >>, << "Sublayer" >>, << "Sublayer", "ui" >> }

LayerRecords == { [from |-> << f >>, to |-> << t >>] : f \in LayerLabels, t \in LayerLabels }

(***************************************************************************)
(* Inputs of groupRelationships: the paths of the query rows, and the      *)
(* containment-only paths that go down a containment chain and back up     *)
(* part of it, in either direction mode.                                   *)
(***************************************************************************)
Reverse(s) == [i \in 1..Len(s) |-> s[Len(s) + 1 - i]]

ContainmentOnlyPaths ==
    { SubSeq(ContainmentChain(m), 1, d) \o Reverse(SubSeq(ContainmentChain(m), d - k + 1, d))
      : <<m, d, k>> \in { x \in {"M1", "M2", "M3"} \X (0..2) \X (0..2) :
                            x[2] <= Len(ContainmentChain(x[1])) /\ x[3] <= x[2] } }

GroupCalls ==
    [relationships : { r.path : r \in UNION { QueryRows(sel) : sel \in SelectableNodes } }
                       \cup ContainmentOnlyPaths,
     reverseDirection : BOOLEAN]

(***************************************************************************)
(* Inputs of mergeDuplicateEdges: lists of distinct edge objects over the  *)
(* nodes X and Y, some with the same (source, target) pair.                *)
(***************************************************************************)
DedupEdges ==
    { toEdgeData(Rel("d1", "X", "Y", "CALLS")), toEdgeData(Rel("d2", "X", "Y", "CALLS")),
      toEdgeData(Rel("d3", "Y", "X", "CALLS")), toEdgeData(Rel("d4", "X", "Y", "CONTAINS")) }

DedupCalls == [edges : DistinctLists(DedupEdges, MaxEdges)]

(***************************************************************************)
(* State machine.                                                          *)
(***************************************************************************)
NoGraph == [name |-> <<>>, nodes |-> <<>>, edges |-> <<>>]
NoLpg == [nodes |-> <<>>, edges |-> <<>>]
NoCall == <<>>
NoOptions == [maxDepth |-> <<>>, selfEdges |-> "undefined"]

OptionSets ==
    [maxDepth : { <<>> } \cup { << d >> : d \in 0..MaxCutoff },
     selfEdges : {"undefined", "true", "false"}]

\* A request for the dependency view: the rows of one query and the options.
Init ==
    /\ pc = "records"
    /\ rawRecords \in UNION { DistinctLists(QueryRows(sel), MaxRecords) : sel \in SelectableNodes }
    /\ options \in OptionSets
    /\ nodes = <<>>
    /\ records = <<>>
    /\ replaceMap = EmptyMap
    /\ rawEdges = <<>>
    /\ mergedEdges = <<>>
    /\ lpg = NoLpg
    /\ graphs = <<>>
    /\ graph = NoGraph
    /\ error = <<>>
    /\ call = NoCall
    /\ returned = <<>>
    /\ locals = <<>>

\* new GraphPreProcessingService(records)
Preprocess ==
    /\ pc = "records"
    /\ nodes' = getAllNodes(rawRecords)
    /\ records' = onlyKeepLongestPaths(splitRelationshipsIntoChunks(rawRecords))
    /\ pc' = "preprocessed"
    /\ UNCHANGED <<rawRecords, options, replaceMap, rawEdges, mergedEdges, lpg, mergeVars, callVars>>

\* new GraphProcessingService(preprocessor).formatToLPG(name, options)
FormatToLPG ==
    /\ pc = "preprocessed"
    /\ LET result == formatToLPG(nodes, records, options)
       IN  /\ replaceMap' = result.replaceMap
           /\ records' = result.records
           /\ rawEdges' = result.rawEdges
           /\ mergedEdges' = result.mergedEdges
           /\ lpg' = [nodes |-> result.nodes, edges |-> result.edges]
    /\ pc' = "formatted"
    /\ UNCHANGED <<rawRecords, options, nodes, mergeVars, callVars>>

Next == Preprocess \/ FormatToLPG

Spec == Init /\ [][Next]_vars

\* The merger on its own: the sub-views handed to the constructor.
InitMerge ==
    /\ pc = "graphs"
    /\ graphs \in ListsUpTo(Views, MaxGraphs)
    /\ graph = NoGraph
    /\ error = <<>>
    /\ rawRecords = <<>>
    /\ options = NoOptions
    /\ nodes = <<>>
    /\ records = <<>>
    /\ replaceMap = EmptyMap
    /\ rawEdges = <<>>
    /\ mergedEdges = <<>>
    /\ lpg = NoLpg
    /\ call = NoCall
    /\ returned = <<>>
    /\ locals = <<>>

\* new PostProcessingService(...graphs) returns: validateGraph found nothing
ConstructOk ==
    /\ pc = "graphs"
    /\ validateGraph(ConstructedGraph(graphs)) = <<>>
    /\ graph' = ConstructedGraph(graphs)
    /\ pc' = "constructed"
    /\ UNCHANGED <<graphs, error, lpgVars, callVars>>

\* new PostProcessingService(...graphs) throws: no graph is kept
ConstructThrows ==
    /\ pc = "graphs"
    /\ validateGraph(ConstructedGraph(graphs)) # <<>>
    /\ error' = << validateGraph(ConstructedGraph(graphs)) >>
    /\ pc' = "thrown"
    /\ UNCHANGED <<graphs, graph, lpgVars, callVars>>

NextMerge == ConstructOk \/ ConstructThrows

SpecMerge == InitMerge /\ [][NextMerge]_vars

\* The neighbour-count filter on its own.
InitFilter ==
    /\ pc = "filter"
    /\ call \in FilterCalls
    /\ returned = <<>>
    /\ locals = <<>>
    /\ rawRecords = <<>>
    /\ options = NoOptions
    /\ nodes = <<>>
    /\ records = <<>>
    /\ replaceMap = EmptyMap
    /\ rawEdges = <<>>
    /\ mergedEdges = <<>>
    /\ lpg = NoLpg
    /\ graphs = <<>>
    /\ graph = NoGraph
    /\ error = <<>>

\* applyMinMaxRelationshipsFilter(records, outgoing, min, max)
ApplyMinMaxRelationshipsFilter ==
    /\ pc = "filter"
    /\ returned' = applyMinMaxRelationshipsFilter(call.records, call.outgoing,
                                                call.minRelationships, call.maxRelationships)
    /\ pc' = "filtered"
    /\ UNCHANGED <<call, locals, lpgVars, mergeVars>>

NextFilter == ApplyMinMaxRelationshipsFilter

SpecFilter == InitFilter /\ [][NextFilter]_vars

\* The violation projector on its own.
InitCycles ==
    /\ pc = "cycles"
    /\ call \in CycleCalls
    /\ returned = <<>>
    /\ locals = <<>>
    /\ rawRecords = <<>>
    /\ options = NoOptions
    /\ nodes = <<>>
    /\ records = <<>>
    /\ replaceMap = EmptyMap
    /\ rawEdges = <<>>
    /\ mergedEdges = <<>>
    /\ lpg = NoLpg
    /\ graphs = <<>>
    /\ graph = NoGraph
    /\ error = <<>>

\* extractAndAbstractDependencyCycles(dependencyCycles, dependencies, nodes):
\* the looked-up rendered edges are marked, the projected cycles returned
ExtractAndAbstractDependencyCycles ==
    /\ pc = "cycles"
    /\ returned' = extractAndAbstractDependencyCycles(call.dependencyCycles,
                                                     call.dependencies, call.nodes)
    /\ call' = [call EXCEPT !.dependencies = MarkCycleEdges(@, call.dependencyCycles)]
    /\ pc' = "projected"
    /\ UNCHANGED <<locals, lpgVars, mergeVars>>

NextCycles == ExtractAndAbstractDependencyCycles

SpecCycles == InitCycles /\ [][NextCycles]_vars

\* The layer summary on its own.
InitLayers ==
    /\ pc = "layers"
    /\ call \in [records : DistinctLists(LayerRecords, MaxRecords)]
    /\ returned = <<>>
    /\ locals = <<>>
    /\ rawRecords = <<>>
    /\ options = NoOptions
    /\ nodes = <<>>
    /\ records = <<>>
    /\ replaceMap = EmptyMap
    /\ rawEdges = <<>>
    /\ mergedEdges = <<>>
    /\ lpg = NoLpg
    /\ graphs = <<>>
    /\ graph = NoGraph
    /\ error = <<>>

\* formatLayers(records) up to the loop: the layers are collected and the top
\* layer is found
FormatLayersBegin ==
    /\ pc = "layers"
    /\ LET layers == LayersOf(<<>>, call.records)
           parentLayer == FindTopLayer(layers, 1)
       IN  /\ parentLayer # 0
           /\ locals' = [layers |-> layers,
                         parentLayer |-> layers[parentLayer],
                         sortedLayers |-> << layers[parentLayer] >>]
    /\ pc' = "sorting"
    /\ UNCHANGED <<call, returned, lpgVars, mergeVars>>

\* formatLayers(records) throws: no layer without a parent label
FormatLayersThrows ==
    /\ pc = "layers"
    /\ FindTopLayer(LayersOf(<<>>, call.records), 1) = 0
    /\ locals' = [layers |-> LayersOf(<<>>, call.records)]
    /\ error' = << "No top layer (without any parent labels) found." >>
    /\ pc' = "thrown"
    /\ UNCHANGED <<call, returned, lpgVars, graphs, graph>>

\* one iteration of the while loop that finds a child layer
SortNextLayer ==
    /\ pc = "sorting"
    /\ LET childLayer == FindChildLayer(locals.layers, locals.parentLayer, 1)
       IN  /\ childLayer # 0
           /\ locals' = [locals EXCEPT
                           !.sortedLayers = Append(@, locals.layers[childLayer]),
                           !.parentLayer = locals.layers[childLayer]]
    /\ UNCHANGED <<pc, call, returned, lpgVars, mergeVars>>

\* the iteration that finds no child layer: break, return sortedLayers
FormatLayersReturn ==
    /\ pc = "sorting"
    /\ FindChildLayer(locals.layers, locals.parentLayer, 1) = 0
    /\ returned' = locals.sortedLayers
    /\ pc' = "sorted"
    /\ UNCHANGED <<call, locals, lpgVars, mergeVars>>

NextLayers == FormatLayersBegin \/ FormatLayersThrows \/ SortNextLayer \/ FormatLayersReturn

SpecLayers == InitLayers /\ [][NextLayers]_vars

\* groupRelationships on its own.
InitGroup ==
    /\ pc = "path"
    /\ call \in GroupCalls
    /\ returned = <<>>
    /\ locals = <<>>
    /\ rawRecords = <<>>
    /\ options = NoOptions
    /\ nodes = <<>>
    /\ records = <<>>
    /\ replaceMap = EmptyMap
    /\ rawEdges = <<>>
    /\ mergedEdges = <<>>
    /\ lpg = NoLpg
    /\ graphs = <<>>
    /\ graph = NoGraph
    /\ error = <<>>

\* groupRelationships(relationships, reverseDirection)
GroupRelationships ==
    /\ pc = "path"
    /\ returned' = groupRelationships(call.relationships, call.reverseDirection)
    /\ pc' = "grouped"
    /\ UNCHANGED <<call, locals, lpgVars, mergeVars>>

NextGroup == GroupRelationships

SpecGroup == InitGroup /\ [][NextGroup]_vars

\* mergeDuplicateEdges on its own, called twice on the same list: call.edges
\* is the caller's list of edge objects, returned the value of the list the
\* last call returned, locals what the caller saw before and after the first
\* call.
InitDedup ==
    /\ pc = "edges"
    /\ call \in DedupCalls
    /\ returned = <<>>
    /\ locals = <<>>
    /\ rawRecords = <<>>
    /\ options = NoOptions
    /\ nodes = <<>>
    /\ records = <<>>
    /\ replaceMap = EmptyMap
    /\ rawEdges = <<>>
    /\ mergedEdges = <<>>
    /\ lpg = NoLpg
    /\ graphs = <<>>
    /\ graph = NoGraph
    /\ error = <<>>

\* mergeDuplicateEdges(edges)
MergeDuplicateEdges ==
    /\ pc = "edges"
    /\ LET result == mergeDuplicateEdgesInPlace(call.edges)
       IN  /\ call' = [call EXCEPT !.edges = result.edges]
           /\ returned' = result.returned
           /\ locals' = [before |-> call.edges, first |-> result.returned]
    /\ pc' = "merged"
    /\ UNCHANGED <<lpgVars, mergeVars>>

\* mergeDuplicateEdges(edges) again, on the same list
MergeDuplicateEdgesAgain ==
    /\ pc = "merged"
    /\ LET result == mergeDuplicateEdgesInPlace(call.edges)
       IN  /\ call' = [call EXCEPT !.edges = result.edges]
           /\ returned' = result.returned
    /\ pc' = "mergedAgain"
    /\ UNCHANGED <<locals, lpgVars, mergeVars>>

NextDedup == MergeDuplicateEdges \/ MergeDuplicateEdgesAgain

SpecDedup == InitDedup /\ [][NextDedup]_vars

(***************************************************************************)
(* Properties of the merger (checked under SpecMerge).                     *)
(***************************************************************************)
MissingSource(g, e) == e.source \notin Keys(g.nodes)
MissingTarget(g, e) == e.target \notin Keys(g.nodes)

\* C1: whenever constructing PostProcessingService succeeds, every edge of the
\* resulting graph has its source id and its target id in the graph's node
\* set, for every id value (the empty string included).
C1_ConstructedGraphHasNoDanglingEdge ==
    pc = "constructed" =>
      \A i \in 1..Len(graph.edges) :
        ~MissingSource(graph, graph.edges[i]) /\ ~MissingTarget(graph, graph.edges[i])

\* C2: if an edge of the (merged) graph has a source or target id absent from
\* the node set, the constructor throws one error and keeps no graph; the
\* error lists every offending edge and no valid one, in order, and names for
\* each exactly the missing endpoint(s).
OffendingEdges(g) ==
    LET Offends(e) == MissingSource(g, e) \/ MissingTarget(g, e)
    IN  SelectSeq(g.edges, Offends)

ExpectedMessage(g, e) ==
    IF MissingSource(g, e) /\ MissingTarget(g, e)
    THEN [edge |-> e.id, unknown |-> "source and target", ids |-> << e.source, e.target >>]
    ELSE IF MissingSource(g, e)
    THEN [edge |-> e.id, unknown |-> "source", ids |-> << e.source >>]
    ELSE [edge |-> e.id, unknown |-> "target", ids |-> << e.target >>]

C2_ErrorNamesEveryOffendingEdge ==
    LET g == ConstructedGraph(graphs)
        offending == OffendingEdges(g)
    IN  (pc # "graphs" /\ offending # <<>>) =>
          /\ pc = "thrown"
          /\ graph = NoGraph
          /\ Len(error) = 1
          /\ error[1] = [i \in 1..Len(offending) |-> ExpectedMessage(g, offending[i])]

\* C3: mergeGraphs yields a graph whose node ids are exactly the union of the
\* inputs' node ids and whose edge ids are exactly the union of the inputs'
\* edge ids, every id once, each element being an element of one of the
\* inputs (no attribute is re-merged); the constructor keeps that graph.
UnionById(merged, parts) ==
    /\ Keys(merged) = UNION { Keys(parts[i]) : i \in 1..Len(parts) }
    /\ Cardinality(Keys(merged)) = Len(merged)
    /\ Range(merged) \subseteq UNION { Range(parts[i]) : i \in 1..Len(parts) }

C3_MergeIsUnionById ==
    LET merged == mergeGraphs(graphs)
    IN  /\ UnionById(merged.nodes, [i \in 1..Len(graphs) |-> graphs[i].nodes])
        /\ UnionById(merged.edges, [i \in 1..Len(graphs) |-> graphs[i].edges])
        /\ (pc = "constructed" /\ Len(graphs) # 1) => graph = merged

\* Two views sharing a node id and an edge id have been merged.
C3_SharedElementsMerged ==
    /\ pc = "constructed"
    /\ Len(graphs) = 2
    /\ Keys(graphs[1].nodes) \cap Keys(graphs[2].nodes) # {}
    /\ Keys(graphs[1].edges) \cap Keys(graphs[2].edges) # {}
    /\ Keys(graphs[1].nodes) # Keys(graphs[2].nodes)

(***************************************************************************)
(* Properties of formatToLPG (checked under Spec).                         *)
(***************************************************************************)
\* the records the pre-processor retained, before formatToLPG touches them
RetainedRecords == onlyKeepLongestPaths(splitRelationshipsIntoChunks(rawRecords))

\* the raw dependency relationships of the retained records, one per id
IsDependency(r) == ToLowerCase(r.type) # "contains"

RawDependencies ==
    FirstById(SelectSeq(Flat([i \in 1..Len(RetainedRecords) |-> AllEdgesOf(RetainedRecords[i])]),
                        IsDependency), {})

MappedOnto(s, t) ==
    { i \in 1..Len(RawDependencies) :
        /\ Rewrite(replaceMap, RawDependencies[i].startNodeElementId) = s
        /\ Rewrite(replaceMap, RawDependencies[i].endNodeElementId) = t }

NodeIds(ns) == {ns[i].id : i \in 1..Len(ns)}

\* C4: the weight of every edge returned by formatToLPG equals the number of
\* raw dependency edges (distinct ids) of the retained records whose endpoints,
\* rewritten through the abstraction map, are that edge's (source, target).
C4_WeightCountsRawEdges ==
    pc = "formatted" =>
      \A i \in 1..Len(lpg.edges) :
        lpg.edges[i].weight = Cardinality(MappedOnto(lpg.edges[i].source, lpg.edges[i].target))

\* C5: mergeDuplicateEdges returns an edge list with pairwise distinct
\* (source, target) pairs unchanged, and for any input returns one edge per
\* pair of the input, in order of first occurrence, with the id and the
\* attributes of the first input edge of that pair.
Pair(e) == << e.source, e.target >>

PairwiseDistinctPairs(edges) ==
    \A i, j \in 1..Len(edges) : Pair(edges[i]) = Pair(edges[j]) => i = j

FirstOfPair(edges, pr) ==
    edges[CHOOSE i \in 1..Len(edges) :
            /\ Pair(edges[i]) = pr
            /\ \A j \in 1..(i - 1) : Pair(edges[j]) # pr]

C5_MergeKeepsFirstOfEachPair ==
    pc = "formatted" =>
      /\ PairwiseDistinctPairs(rawEdges) => mergedEdges = rawEdges
      /\ PairwiseDistinctPairs(mergedEdges)
      /\ {Pair(mergedEdges[i]) : i \in 1..Len(mergedEdges)}
           = {Pair(rawEdges[i]) : i \in 1..Len(rawEdges)}
      /\ \A i \in 1..Len(mergedEdges) :
           LET first == FirstOfPair(rawEdges, Pair(mergedEdges[i]))
           IN  /\ mergedEdges[i].id = first.id
               /\ mergedEdges[i].interaction = first.interaction
      /\ \A i, j \in 1..Len(mergedEdges) :
           i < j => \E a, b \in 1..Len(rawEdges) :
                      a < b /\ rawEdges[a] = FirstOfPair(rawEdges, Pair(mergedEdges[i]))
                            /\ rawEdges[b] = FirstOfPair(rawEdges, Pair(mergedEdges[j]))

\* Two edges with the same (source, target) pair went into one.
C5_DuplicateMerged ==
    /\ pc = "formatted"
    /\ Len(mergedEdges) < Len(rawEdges)
    /\ \E i \in 1..Len(mergedEdges) : mergedEdges[i].weight > DefaultWeight

\* C6 (scenario A): for one record D -contains-> M1 -depends-> M2 <-contains- D
\* and maxDepth 0, formatToLPG returns exactly node D, with exactly one edge
\* D -> D of weight 1 unless selfEdges is false, and with no edge when it is.
ScenarioA ==
    << [source |-> "D",
        path |-> << Rel("c1", "D", "M1", "CONTAINS"), Rel("e1", "M1", "M2", "CALLS"),
                    Rel("c2", "D", "M2", "CONTAINS") >>,
        target |-> "D"] >>

C6_ScenarioACollapsesOntoDomain ==
    (pc = "formatted" /\ rawRecords = ScenarioA /\ options.maxDepth = << 0 >>) =>
      /\ Len(lpg.nodes) = 1
      /\ lpg.nodes[1].id = "D"
      /\ IF options.selfEdges = "false" THEN lpg.edges = <<>>
         ELSE /\ Len(lpg.edges) = 1
              /\ Pair(lpg.edges[1]) = << "D", "D" >>
              /\ lpg.edges[1].weight = 1

\* Scenario A has run with self-edges enabled.
C6_ScenarioAFormatted ==
    /\ pc = "formatted"
    /\ rawRecords = ScenarioA
    /\ options = [maxDepth |-> << 0 >>, selfEdges |-> "true"]
    /\ Len(lpg.edges) = 1

\* C7: the map returned by getAbstractionMap is idempotent: no value of the
\* map is itself a key of the map.
C7_AbstractionMapIsIdempotent ==
    pc = "formatted" =>
      \A k \in DOMAIN replaceMap : replaceMap[k] \notin DOMAIN replaceMap

\* C8: after formatToLPG with a maxDepth, no key of the abstraction map is the
\* id of a returned node nor the source or target of a returned edge.
C8_CollapsedIdsAreGone ==
    (pc = "formatted" /\ options.maxDepth # <<>>) =>
      \A k \in DOMAIN replaceMap :
        /\ k \notin NodeIds(lpg.nodes)
        /\ \A i \in 1..Len(lpg.edges) : lpg.edges[i].source # k /\ lpg.edges[i].target # k

\* C9: every edge returned by formatToLPG has its source id and its target id
\* among the ids of the nodes returned by the same call.
C9_NoOrphanEdges ==
    pc = "formatted" =>
      \A i \in 1..Len(lpg.edges) :
        lpg.edges[i].source \in NodeIds(lpg.nodes) /\ lpg.edges[i].target \in NodeIds(lpg.nodes)

\* C10: for any two orderings of the same path records and the same options,
\* formatToLPG returns the same set of node ids and the same set of
\* (source, target, weight) triples.
Pipeline(recs, opts) ==
    formatToLPG(getAllNodes(recs),
                onlyKeepLongestPaths(splitRelationshipsIntoChunks(recs)), opts)

Triples(edges) == {<< edges[i].source, edges[i].target, edges[i].weight >> : i \in 1..Len(edges)}

C10_OutputIndependentOfRecordOrder ==
    pc = "formatted" =>
      \A f \in Permutations(1..Len(rawRecords)) :
        LET other == Pipeline([i \in 1..Len(rawRecords) |-> rawRecords[f[i]]], options)
        IN  /\ NodeIds(other.nodes) = NodeIds(lpg.nodes)
            /\ Triples(other.edges) = Triples(lpg.edges)

\* C11: no edge in the edge list returned by formatToLPG has the containment
\* interaction type 'contains'.
C11_NoContainmentEdgeReturned ==
    pc = "formatted" =>
      \A i \in 1..Len(lpg.edges) : lpg.edges[i].interaction # "contains"

\* Containment edges went into the call and dependency edges came out.
C11_ContainmentStripped ==
    /\ pc = "formatted"
    /\ \E i \in 1..Len(mergedEdges) : mergedEdges[i].interaction = "contains"
    /\ lpg.edges # <<>>

\* C12: every node in the node list returned by formatToLPG is the source or
\* the target of at least one (dependency) edge of the returned edge list.
C12_ReturnedNodesAreOnReturnedEdges ==
    pc = "formatted" =>
      \A n \in 1..Len(lpg.nodes) :
        \E i \in 1..Len(lpg.edges) :
          lpg.edges[i].source = lpg.nodes[n].id \/ lpg.edges[i].target = lpg.nodes[n].id

\* C13: a returned node that is the target of a containment edge among the
\* merged edges has the source of one of those edges as parent; a node that is
\* the target of no containment edge has no parent.
ContainmentOnto(id) ==
    { i \in 1..Len(mergedEdges) :
        mergedEdges[i].interaction = "contains" /\ mergedEdges[i].target = id }

C13_ParentIsContainmentSource ==
    pc = "formatted" =>
      \A n \in 1..Len(lpg.nodes) :
        IF ContainmentOnto(lpg.nodes[n].id) = {}
        THEN lpg.nodes[n].parent = <<>>
        ELSE \E i \in ContainmentOnto(lpg.nodes[n].id) :
               lpg.nodes[n].parent = << mergedEdges[i].source >>

\* A returned node is the target of a containment edge and has got its parent.
C13_NodeGotParent ==
    /\ pc = "formatted"
    /\ \E n \in 1..Len(lpg.nodes) :
         /\ ContainmentOnto(lpg.nodes[n].id) # {}
         /\ lpg.nodes[n].parent # <<>>
    /\ \E n \in 1..Len(lpg.nodes) : ContainmentOnto(lpg.nodes[n].id) = {}

\* C14: with selfEdges = false no returned edge has source = target and every
\* dependency edge with source # target left by the merge is returned; with
\* selfEdges true or not given, every self-edge the abstraction produced is
\* returned (as the merged edge of its pair).
IsSelfEdge(e) == e.source = e.target

C14_SelfEdgeFilter ==
    pc = "formatted" =>
      IF options.selfEdges = "false"
      THEN /\ \A i \in 1..Len(lpg.edges) : ~IsSelfEdge(lpg.edges[i])
           /\ \A j \in 1..Len(mergedEdges) :
                (mergedEdges[j].interaction # "contains" /\ ~IsSelfEdge(mergedEdges[j]))
                  => mergedEdges[j] \in Range(lpg.edges)
      ELSE \A j \in 1..Len(rawEdges) :
             IsSelfEdge(rawEdges[j]) =>
               \E i \in 1..Len(lpg.edges) : Pair(lpg.edges[i]) = Pair(rawEdges[j])

\* A self-edge was removed while another dependency edge was returned.
C14_SelfEdgeRemoved ==
    /\ pc = "formatted"
    /\ options.selfEdges = "false"
    /\ \E j \in 1..Len(mergedEdges) : IsSelfEdge(mergedEdges[j])
    /\ lpg.edges # <<>>

\* C15: onlyKeepLongestPaths retains a record iff its trailing-containment
\* length equals the maximum over all input records with the same
\* dependency-edge-id sequence; every sequence of the input keeps at least one
\* record and the retained records keep their input order.
Chunked == splitRelationshipsIntoChunks(rawRecords)

LongestTrailing(id) ==
    LET depths == {Chunked[i].targetDepth : i \in {j \in 1..Len(Chunked) : PathId(Chunked[j]) = id}}
    IN  CHOOSE d \in depths : \A d2 \in depths : d2 <= d

IsLongest(r) == r.targetDepth = LongestTrailing(PathId(r))

C15_LongestPathsRetained ==
    pc = "preprocessed" =>
      /\ records = SelectSeq(Chunked, IsLongest)
      /\ \A i \in 1..Len(Chunked) :
           \E j \in 1..Len(records) : PathId(records[j]) = PathId(Chunked[i])

\* A shorter path of a dependency was dropped after its longest path was seen.
C15_ShorterPathDropped ==
    /\ pc = "preprocessed"
    /\ Len(rawRecords) = 2
    /\ Len(records) = 1
    /\ records[1] = Chunked[2]

\* the runs getAbstractionMap deleted from retained record i
DeletedSource(i) ==
    SpliceDeleted(RetainedRecords[i].containSourceEdges, options.maxDepth[1],
                  ContainsTooDeep(RetainedRecords[i], options.maxDepth[1]))

DeletedTarget(i) ==
    SpliceDeleted(RetainedRecords[i].containTargetEdges,
                  RetainedRecords[i].targetDepth
                    - ContainsTooDeep(RetainedRecords[i], options.maxDepth[1]),
                  ContainsTooDeep(RetainedRecords[i], options.maxDepth[1]))

MappedToFirstStart(run) ==
    \A j \in 1..Len(run) :
      /\ run[j].endNodeElementId \in DOMAIN replaceMap
      /\ replaceMap[run[j].endNodeElementId] = run[1].startNodeElementId

\* C23: after getAbstractionMap(maxDepth), in every record the leading and the
\* trailing containment chunk have at most maxDepth edges each, and the end
\* node of every deleted edge is a key of the map whose value is the start node
\* of the first edge deleted in that run.
C23_ContainmentChunksDepthBounded ==
    (pc = "formatted" /\ options.maxDepth # <<>>) =>
      \A i \in 1..Len(records) :
        /\ Len(records[i].containSourceEdges) <= options.maxDepth[1]
        /\ Len(records[i].containTargetEdges) <= options.maxDepth[1]
        /\ MappedToFirstStart(DeletedSource(i))
        /\ MappedToFirstStart(DeletedTarget(i))

\* C25: whenever a retained record holds a dependency edge whose rewritten
\* endpoints are (s, t), and s # t or self-edges are enabled, the edge list
\* returned by formatToLPG contains a dependency edge (s, t).
C25_DependencyNotLostToContainment ==
    pc = "formatted" =>
      \A i \in 1..Len(records) : \A j \in 1..Len(records[i].dependencyEdges) :
        LET s == records[i].dependencyEdges[j].startNodeElementId
            t == records[i].dependencyEdges[j].endNodeElementId
        IN  (s # t \/ options.selfEdges # "false") =>
              \E e \in 1..Len(lpg.edges) :
                /\ Pair(lpg.edges[e]) = << s, t >>
                /\ lpg.edges[e].interaction # "contains"

(***************************************************************************)
(* Properties of the neighbour-count filter (checked under SpecFilter).    *)
(***************************************************************************)
\* the distinct neighbour ids the records of the call collect for an anchor
NeighborsOf(anchor) ==
    { AnchorEnds(call.records[i], call.outgoing).relatedNode :
        i \in { j \in 1..Len(call.records) :
                  /\ call.records[j].dependencyEdges # <<>>
                  /\ AnchorEnds(call.records[j], call.outgoing).node = anchor } }

WithinBounds(record) ==
    LET n == Cardinality(NeighborsOf(record.selectedModuleElementId))
    IN  /\ call.minRelationships = <<>> \/ n >= call.minRelationships[1]
        /\ call.maxRelationships = <<>> \/ n <= call.maxRelationships[1]

\* C16: applyMinMaxRelationshipsFilter keeps a record iff the number n of
\* distinct neighbour ids collected for the record's anchor satisfies (min not
\* given or n >= min) and (max not given or n <= max), for every min and max,
\* 0 included; so with no bound every record is kept and the records of one
\* anchor are all kept or all dropped.
C16_KeptIffNeighborCountWithinBounds ==
    pc = "filtered" => returned = SelectSeq(call.records, WithinBounds)

(***************************************************************************)
(* Properties of the violation projector (checked under SpecCycles).       *)
(***************************************************************************)
\* the steps of an input cycle after rewriting, before the collapse
Rewritten(c) == NewPath(c, call.dependencies, call.nodes)

\* at least one rewritten edge of the cycle matches a rendered edge by id
Realized(c) == \E i \in 1..Len(Rewritten(c)) : has(call.dependencies, Rewritten(c)[i].id)

\* the cycle is an output cycle's original or one of its merged originals
Contributes(c) == \E o \in 1..Len(returned) : c \in Range(returned[o].actualCycles)

\* C17: an input cycle contributes to the output of
\* extractAndAbstractDependencyCycles iff at least one of its rewritten edges
\* matches, by id, an edge of the rendered graph, also when the matching edge
\* is a self-edge that the collapse removes from the path.
C17_CycleRealization ==
    pc = "projected" =>
      \A c \in Range(call.dependencyCycles) : Contributes(c) <=> Realized(c)

\* C18: if after rewriting all steps of a cycle have source = target, the
\* projected path keeps exactly one step; otherwise it has no step with
\* source = target and keeps every step with source # target, in order.
Collapsed(newPath) ==
    IF \A i \in 1..Len(newPath) : IsSelfEdge(newPath[i])
    THEN << newPath[1] >>
    ELSE SelectSeq(newPath, LAMBDA e : ~IsSelfEdge(e))

C18_SelfEdgeCollapse ==
    pc = "projected" =>
      /\ \A c \in Range(call.dependencyCycles) :
           LET path == ProjectCycle(c, call.dependencies, call.nodes).path
           IN  /\ path = Collapsed(Rewritten(c))
               /\ (\A i \in 1..Len(Rewritten(c)) : IsSelfEdge(Rewritten(c)[i])) => Len(path) = 1
      /\ \A o \in 1..Len(returned) :
           returned[o].path = Collapsed(Rewritten(returned[o].actualCycles[1]))

\* The cycle A->B->C->A, all of it lifted onto one node, came out with one step.
C18_FullyInternalCycleKept ==
    /\ pc = "projected"
    /\ \E o \in 1..Len(returned) :
         /\ returned[o].length = 3
         /\ Len(returned[o].path) = 1
         /\ IsSelfEdge(returned[o].path[1])

\* C19: the returned cycles have pairwise distinct ids, each the anchor id
\* plus the ordered edge ids of its path; every realized input cycle occurs
\* exactly once over all actualCycles lists, in the list of the output cycle
\* with its key, so the actualCycles lengths sum to the number of realized
\* input cycles.
KeyOf(c) ==
    << Rewritten(c)[1].sourceNode.id,
       [i \in 1..Len(Collapsed(Rewritten(c))) |-> Collapsed(Rewritten(c))[i].id] >>

Occurrences(c) ==
    { x \in (1..Len(returned)) \X (1..MaxCycles + 1) :
        x[2] <= Len(returned[x[1]].actualCycles) /\ returned[x[1]].actualCycles[x[2]] = c }

RECURSIVE SumOfActualCycles(_)
SumOfActualCycles(ds) ==
    IF ds = <<>> THEN 0 ELSE Len(Head(ds).actualCycles) + SumOfActualCycles(Tail(ds))

C19_CyclesMergedByKey ==
    pc = "projected" =>
      /\ \A i, j \in 1..Len(returned) : returned[i].id = returned[j].id => i = j
      /\ \A o \in 1..Len(returned) : returned[o].id = cycleIndex(returned[o])
      /\ \A c \in Range(call.dependencyCycles) :
           Realized(c) =>
             /\ Cardinality(Occurrences(c)) = 1
             /\ \A x \in Occurrences(c) : returned[x[1]].id = KeyOf(c)
      /\ SumOfActualCycles(returned)
           = Cardinality({i \in 1..Len(call.dependencyCycles) : Realized(call.dependencyCycles[i])})

\* C20: a projected step whose edge id is found in the rendered graph has the
\* rendered edge's id, start node id as source and end node id as target, the
\* rendered start node as sourceNode and the rendered end node as targetNode.
C20_StepAdoptsRenderedEdge ==
    pc = "projected" =>
      \A o \in 1..Len(returned) : \A s \in 1..Len(returned[o].path) :
        LET step == returned[o].path[s]
            existingEdge == getOriginal(call.dependencies, step.id)
        IN  existingEdge # <<>> =>
              /\ step.source = existingEdge[1].startNode.elementId
              /\ step.target = existingEdge[1].endNode.elementId
              /\ step.sourceNode = toNodeData(existingEdge[1].startNode)
              /\ step.targetNode = toNodeData(existingEdge[1].endNode)

\* C22: every returned cycle is closed at the rendered granularity: the anchor
\* id is the source of the first step and the target of the last step, and
\* each step's target is the next step's source.
C22_ReturnedCycleIsClosed ==
    pc = "projected" =>
      \A o \in 1..Len(returned) :
        LET path == returned[o].path
        IN  /\ returned[o].node.id = path[1].source
            /\ returned[o].node.id = path[Len(path)].target
            /\ \A s \in 1..(Len(path) - 1) : path[s].target = path[s + 1].source

\* C26: a rendered edge is marked as cycle-participating only if its id occurs
\* in the path of at least one returned cycle.
C26_MarkedEdgeIsOnReturnedCycle ==
    pc = "projected" =>
      \A e \in 1..Len(call.dependencies) :
        call.dependencies[e].violations.dependencyCycle =>
          \E o \in 1..Len(returned) : \E s \in 1..Len(returned[o].path) :
            returned[o].path[s].id = call.dependencies[e].elementId

(***************************************************************************)
(* Properties of the layer summary (checked under SpecLayers).             *)
(***************************************************************************)
\* the layers without a parent label
TopLayers == { i \in 1..Len(locals.layers) : locals.layers[i].parentLabel = <<>> }

\* C21: formatLayers fails with an error whenever the number of layers
\* without a parent label is not exactly one (none, also for an empty record
\* list, or two or more); with exactly one it returns without error.
C21_FailsUnlessOneTopLayer ==
    pc # "layers" => (pc = "thrown" <=> Cardinality(TopLayers) # 1)

\* C28: formatLayers terminates for every finite record list, also when a
\* label contains itself or labels contain each other: the walk from the top
\* layer never visits a layer twice, and the list built is a chain whose first
\* layer has no parent and in which each later layer's parentLabel is the
\* label of the layer before it.  Every iteration of the loop appends one
\* layer, so a walk without a repeated layer ends after at most one iteration
\* per layer.
C28_FormatLayersTerminates ==
    pc \in {"sorting", "sorted"} =>
      LET sortedLayers == locals.sortedLayers
      IN  /\ Len(sortedLayers) <= Len(locals.layers)
          /\ \A i, j \in 1..Len(sortedLayers) :
               sortedLayers[i].label = sortedLayers[j].label => i = j
          /\ sortedLayers[1].parentLabel = <<>>
          /\ \A i \in 2..Len(sortedLayers) :
               sortedLayers[i].parentLabel = << sortedLayers[i - 1].label >>
          /\ pc = "sorted" => returned = sortedLayers

\* A layering with a label that contains itself was walked to the end.
C28_WalkedPastSelfContainment ==
    /\ pc = "sorted"
    /\ Len(returned) >= 2
    /\ \E i \in 1..Len(call.records) : extractLayer(call.records[i].from).label
                                         = extractLayer(call.records[i].to).label

(***************************************************************************)
(* Properties of groupRelationships (checked under SpecGroup).             *)
(***************************************************************************)
OnlyContainment(chunk) ==
    \A i \in 1..Len(chunk) : ToLowerCase(chunk[i].type) = "contains"

\* C24: groupRelationships decomposes every path's edge list into exactly
\* three contiguous chunks whose concatenation is the input list in order,
\* the first and the last chunk holding only containment edges (possibly
\* none), for containment-only paths too and in both direction modes.
C24_ThreeContiguousChunks ==
    pc = "grouped" =>
      /\ Len(returned) = 3
      /\ Flat(returned) = call.relationships
      /\ OnlyContainment(returned[1])
      /\ OnlyContainment(returned[Len(returned)])

(***************************************************************************)
(* Properties of mergeDuplicateEdges as a call (checked under SpecDedup).  *)
(***************************************************************************)
\* C27: mergeDuplicateEdges leaves its input unchanged: after the call every
\* edge object of the input list has the weight it had before the call, and
\* a second call on the same list returns what the first call returned.
C27_MergeLeavesInputUnchanged ==
    /\ pc \in {"merged", "mergedAgain"} =>
         \A i \in 1..Len(call.edges) : call.edges[i].weight = locals.before[i].weight
    /\ pc = "mergedAgain" => returned = locals.first

====
